---- MODULE Spec2Model ----
(***************************************************************************)
(* Model of the vim-rs editor core: the rope-backed text buffer            *)
(* (src/src/buffer.rs), the run loop with its boundary pass and per-Action *)
(* dispatch (src/src/editor.rs) and the start-up / exit paths of main      *)
(* (src/src/main.rs).                                                      *)
(*                                                                         *)
(* The text is a flat sequence of characters in which NL is the line       *)
(* break, as in the rope: a line's length counts its trailing NL, and a    *)
(* text with k breaks has k + 1 lines (the last one may be empty).         *)
(* u16 fields keep their width.  An overflowing u16 operation panics in a  *)
(* build with overflow checks and wraps modulo U16 in a build without; the *)
(* model offers both until the first wrap shows the build has no checks    *)
(* (variable wrapped).                                                     *)
(***************************************************************************)
EXTENDS Integers, Sequences, FiniteSets, TLC

\* ------------------------------------------------------------------ bounds
MaxInitLen == 2     \* longest generated file content, in characters
MaxEdits   == 1     \* buffer mutations (insertions, removals) in one run
MaxWidth   == 3     \* widest terminal reported by terminal::size()
MaxHeight  == 4     \* tallest terminal reported by terminal::size()
MaxBufferOps == 2   \* operations applied to a bare Buffer in one run

\* --------------------------------------------------------------- constants
U16        == 65536 \* modulus of the u16 fields vtop, vleft, cx, cy, size
StatusRows == 2     \* rows below the viewport: vheight = size.1 - 2

NL == "\n"

\* ------------------------------------------------------------ u16 helpers
Add(a, b)    == (a + b) % U16
AddOvf(a, b) == a + b >= U16
Sub(a, b)    == (a - b + U16) % U16
SubOvf(a, b) == a < b
SatSub(a, b) == IF a < b THEN 0 ELSE a - b
AsU16(n)     == n % U16

\* ------------------------------------------------------------------- rope
NLCount(t, n) == Cardinality({k \in 1..n : t[k] = NL})

\* Rope::len_lines
LenLines(t) == 1 + NLCount(t, Len(t))

\* Rope::line_to_char: offset of the first character of line i; the line
\* one past the last starts at len_chars (beyond that the rope panics).
LineToChar(t, i) ==
    IF i = 0 THEN 0
    ELSE IF i >= LenLines(t) THEN Len(t)
    ELSE CHOOSE o \in 1..Len(t) : t[o] = NL /\ NLCount(t, o) = i

\* Rope::line(i).len_chars(), the trailing break included
LineLenChars(t, i) ==
    (IF i + 1 < LenLines(t) THEN LineToChar(t, i + 1) ELSE Len(t)) - LineToChar(t, i)

\* Rope::insert_char / Rope::insert at a character offset
RopeInsert(t, idx, c) == SubSeq(t, 1, idx) \o <<c>> \o SubSeq(t, idx + 1, Len(t))

\* Rope::remove(idx..idx+1)
RopeRemove(t, idx) == SubSeq(t, 1, idx) \o SubSeq(t, idx + 2, Len(t))

\* ----------------------------------------------------------------- Buffer
\* A buffer value is [text, dirty]; each mutation returns the new buffer and
\* whether the rope call panicked (index out of bounds).
insert_char(b, line_i, x, c) ==
    LET fault == line_i > LenLines(b.text) \/ x + LineToChar(b.text, line_i) > Len(b.text)
    IN  [text  |-> IF fault THEN b.text
                   ELSE RopeInsert(b.text, x + LineToChar(b.text, line_i), c),
         dirty |-> b.dirty,
         fault |-> fault]

insert_text(b, line_i, x, c) ==
    LET fault == line_i > LenLines(b.text) \/ LineToChar(b.text, line_i) + x > Len(b.text)
    IN  [text  |-> IF fault THEN b.text
                   ELSE RopeInsert(b.text, LineToChar(b.text, line_i) + x, c),
         dirty |-> IF fault THEN b.dirty ELSE TRUE,
         fault |-> fault]

remove_char(b, line_i, x) ==
    LET fault == line_i > LenLines(b.text) \/ LineToChar(b.text, line_i) + x + 1 > Len(b.text)
    IN  [text  |-> IF fault THEN b.text
                   ELSE RopeRemove(b.text, LineToChar(b.text, line_i) + x),
         dirty |-> b.dirty,
         fault |-> fault]

\* ----------------------------------------------------------------- Editor
\* An editor value e is the record of the Editor's fields plus the run
\* loop's local cx_history (field hist):
\*   [text, dirty, size, vtop, vleft, cx, cy, mode, hist]
\* size is <<columns, rows>> as terminal::size() returns it.
\* Every step returns the new value together with
\*   ovf   - some u16 addition or subtraction on the executed path wrapped
\*   fault - a rope call on the executed path was out of bounds (panic)

vheight(e)    == Sub(e.size[2], StatusRows)
vheightOvf(e) == SubOvf(e.size[2], StatusRows)

vwidth(e) == e.size[1]

\* viewport_line(cy) followed by len_chars: 0 when the row holds no line
line_length(e) ==
    IF LenLines(e.text) > Add(e.vtop, e.cy)
    THEN AsU16(LineLenChars(e.text, Add(e.vtop, e.cy)))
    ELSE 0

line_lengthOvf(e) == AddOvf(e.vtop, e.cy)

buffer_line(e) == Add(e.vtop, e.cy)

Buf(e) == [text |-> e.text, dirty |-> e.dirty]

Step(e, ovf, fault) == [e |-> e, ovf |-> ovf, fault |-> fault]

\* The boundary pass run at the head of every loop iteration.
assert_cursor_boundaries(e) ==
    LET vh       == vheight(e)
        len      == AsU16(LenLines(e.text))
        bsl      == Add(e.vtop, vh)                  \* bottom_scroll_limit
        last_row == Sub(vh, 1)
        below    == e.cy > last_row                  \* cursor_below_vp
        clampTop == bsl > len
        vtop1    == IF clampTop THEN Sub(len, vh) ELSE e.vtop
        scroll   == below /\ bsl < len
        vtop2    == IF scroll THEN Add(vtop1, 1) ELSE vtop1
        cy1      == IF below THEN last_row ELSE e.cy
        e1       == [e EXCEPT !.vtop = vtop2, !.cy = cy1]
        wide     == e.cx > vwidth(e)
        corr     == wide \/ e.cx >= line_length(e1)
        adv      == corr /\ cy1 < last_row
        e2       == IF adv THEN [e1 EXCEPT !.cx = 0, !.cy = Add(cy1, 1)] ELSE e1
        more     == corr /\ bsl < len
        reset    == corr /\ ~more /\ (bsl > len \/ line_length(e2) = 0)
        e3       == IF more THEN [e2 EXCEPT !.cx = 0, !.vtop = Add(vtop2, 1)]
                    ELSE IF reset THEN [e2 EXCEPT !.cx = 0]
                    ELSE e2
        e4       == IF corr THEN [e3 EXCEPT !.hist = e3.cx] ELSE e3
        ovf      == \/ vheightOvf(e)
                    \/ AddOvf(e.vtop, vh)
                    \/ SubOvf(vh, 1)
                    \/ clampTop /\ SubOvf(len, vh)
                    \/ scroll /\ AddOvf(vtop1, 1)
                    \/ ~wide /\ line_lengthOvf(e1)
                    \/ adv /\ AddOvf(cy1, 1)
                    \/ more /\ AddOvf(vtop2, 1)
                    \/ corr /\ ~more /\ ~(bsl > len) /\ line_lengthOvf(e2)
    IN  Step(e4, ovf, FALSE)

\* RestoreColumn without the else-if branch: cx takes cx_history unclamped
RestoreColumn_NoClamp(e) == [e EXCEPT !.cx = e.hist]

\* "cx restored from cx_history, clamped to the line's length"
\* (the if / else-if that ends MoveUp, MoveDown, PageDown and PageUp)
RestoreColumn(e) ==
    IF e.hist <= line_length(e) THEN [e EXCEPT !.cx = e.hist]
    ELSE [e EXCEPT !.cx = line_length(e)]

MoveUp(e) ==
    LET cy1   == SatSub(e.cy, 1)
        vtop1 == IF cy1 = 0 /\ e.vtop > 0 THEN e.vtop - 1 ELSE e.vtop
        e1    == [e EXCEPT !.cy = cy1, !.vtop = vtop1]
    IN  Step(RestoreColumn(e1), line_lengthOvf(e1), FALSE)

MoveDown(e) ==
    LET e1 == [e EXCEPT !.cy = Add(e.cy, 1)]
    IN  Step(RestoreColumn(e1), AddOvf(e.cy, 1) \/ line_lengthOvf(e1), FALSE)

\* MoveLeft with the decrement of cx in an else branch: after a wrap to the
\* previous line cx stays at that line's length
MoveLeft_ElseDecrement(e) ==
    LET up   == e.cx = e.vleft /\ e.cy = 0 /\ e.vtop > 0
        back == e.cx = e.vleft /\ ~up /\ e.cy > 0
        e1   == IF up THEN [e EXCEPT !.vtop = e.vtop - 1]
                ELSE IF back THEN [e EXCEPT !.cy = SatSub(e.cy, 1)]
                ELSE e
        cx2  == IF up \/ back THEN line_length(e1) ELSE SatSub(e.cx, 1)
    IN  Step([e1 EXCEPT !.cx = cx2, !.hist = cx2],
             (up \/ back) /\ line_lengthOvf(e1), FALSE)

MoveLeft(e) ==
    LET up   == e.cx = e.vleft /\ e.cy = 0 /\ e.vtop > 0
        back == e.cx = e.vleft /\ ~up /\ e.cy > 0
        e1   == IF up THEN [e EXCEPT !.vtop = e.vtop - 1]
                ELSE IF back THEN [e EXCEPT !.cy = SatSub(e.cy, 1)]
                ELSE e
        cx1  == IF up \/ back THEN line_length(e1) ELSE e.cx
        cx2  == SatSub(cx1, 1)
    IN  Step([e1 EXCEPT !.cx = cx2, !.hist = cx2],
             (up \/ back) /\ line_lengthOvf(e1), FALSE)

MoveRight(e) ==
    Step([e EXCEPT !.cx = Add(e.cx, 1), !.hist = Add(e.cx, 1)], AddOvf(e.cx, 1), FALSE)

\* variant of EnterMode that does not store the new mode
EnterMode_KeepMode(e, new_mode) == Step(e, FALSE, FALSE)

EnterMode(e, new_mode) == Step([e EXCEPT !.mode = new_mode], FALSE, FALSE)

InsertChar(e, c) ==
    LET b == insert_char(Buf(e), buffer_line(e), e.cx, c)
    IN  Step([e EXCEPT !.text = b.text, !.dirty = b.dirty],
             AddOvf(e.vtop, e.cy), b.fault)

DelCharBefore(e) ==
    IF e.cx > e.vleft
    THEN LET b == remove_char(Buf(e), buffer_line(e), e.cx - 1)
         IN  Step([e EXCEPT !.text = b.text, !.dirty = b.dirty,
                            !.cx = SatSub(e.cx, 1), !.hist = SatSub(e.cx, 1)],
                  AddOvf(e.vtop, e.cy), b.fault)
    ELSE Step(e, FALSE, FALSE)

DelCharAtCursor(e) ==
    LET del == e.cx < line_length(e) /\ line_length(e) > 0
        b   == IF del THEN remove_char(Buf(e), buffer_line(e), e.cx)
               ELSE [text |-> e.text, dirty |-> e.dirty, fault |-> FALSE]
        e1  == [e EXCEPT !.text = b.text, !.dirty = b.dirty]
        low == Add(e1.vtop, vheight(e1)) > AsU16(LenLines(e1.text))
        e2  == IF low THEN [e1 EXCEPT !.cy = Add(e1.cy, 1)] ELSE e1
    IN  Step(e2,
             \/ line_lengthOvf(e)
             \/ vheightOvf(e)
             \/ AddOvf(e1.vtop, vheight(e1))
             \/ low /\ AddOvf(e1.cy, 1),
             b.fault)

NewLine(e) ==
    LET b == insert_text(Buf(e), buffer_line(e), e.cx, NL)
    IN  Step([e EXCEPT !.text = b.text, !.dirty = b.dirty,
                       !.cx = 0, !.cy = Add(e.cy, 1)],
             AddOvf(e.vtop, e.cy) \/ AddOvf(e.cy, 1), b.fault)

PageDown(e) ==
    LET vh    == vheight(e)
        vtop1 == Add(e.vtop, vh)
        over  == Add(vtop1, vh) > AsU16(LenLines(e.text))
        e1    == [e EXCEPT !.vtop = vtop1,
                           !.cy = IF over THEN Sub(vh, 1) ELSE e.cy]
    IN  Step(RestoreColumn(e1),
             \/ vheightOvf(e)
             \/ AddOvf(e.vtop, vh)
             \/ AddOvf(vtop1, vh)
             \/ over /\ SubOvf(vh, 1)
             \/ line_lengthOvf(e1),
             FALSE)

PageUp(e) ==
    LET vh == vheight(e)
        e1 == IF e.vtop >= vh THEN [e EXCEPT !.vtop = e.vtop - vh]
              ELSE [e EXCEPT !.vtop = 0, !.cy = 0]
    IN  Step(RestoreColumn(e1), vheightOvf(e) \/ line_lengthOvf(e1), FALSE)

EndOfLine(e) ==
    Step([e EXCEPT !.cx = line_length(e), !.hist = line_length(e)],
         line_lengthOvf(e), FALSE)

StartOfLine(e) == Step([e EXCEPT !.cx = e.vleft, !.hist = e.vleft], FALSE, FALSE)

\* --------------------------------------------------------- ActionResolver
Modes == {"Normal", "Insert"}

NamedKeys == {"Esc", "Up", "Down", "Left", "Right", "Enter", "PageDown", "PageUp",
              "End", "Home", "Backspace", "Delete", "Tab"}

\* KeyCode::Char(c) is modelled by the one-character string c
KeyChars == {"q", "k", "l", "j", ";", "i", "f", "b", "$", "0", "x", "a"}

\* characters the model types in Insert mode (a bound on the alphabet)
TypedChars == {"q"}

Events ==
    [type : {"Key"}, kind : {"Press", "Release", "Repeat"},
     code : NamedKeys \cup KeyChars, ctrl : BOOLEAN]
    \cup [type : {"Resize", "FocusGained"}, kind : {""}, code : {""}, ctrl : {FALSE}]

Act(name, arg) == [name |-> name, arg |-> arg]

None == Act("None", "")

\* handle_insert_event with the Normal-mode binding of q kept in Insert mode
handle_insert_event_QuitOnQ(ev) ==
    IF ev.type # "Key" \/ ev.kind # "Press" THEN None
    ELSE CASE ev.code = "q"         -> Act("Quit", "")
           [] ev.code = "Esc"       -> Act("EnterMode", "Normal")
           [] ev.code = "Up"        -> Act("MoveUp", "")
           [] ev.code = "Down"      -> Act("MoveDown", "")
           [] ev.code = "Left"      -> Act("MoveLeft", "")
           [] ev.code = "Right"     -> Act("MoveRight", "")
           [] ev.code = "Enter"     -> Act("NewLine", "")
           [] ev.code \in KeyChars  -> Act("InsertChar", ev.code)
           [] ev.code = "PageDown"  -> Act("PageDown", "")
           [] ev.code = "PageUp"    -> Act("PageUp", "")
           [] ev.code = "End"       -> Act("EndOfLine", "")
           [] ev.code = "Home"      -> Act("StartOfLine", "")
           [] ev.code = "Backspace" -> Act("DelCharBefore", "")
           [] ev.code = "Delete"    -> Act("DelCharAtCursor", "")
           [] OTHER                 -> None

handle_insert_event(ev) ==
    IF ev.type # "Key" \/ ev.kind # "Press" THEN None
    ELSE CASE ev.code = "Esc"       -> Act("EnterMode", "Normal")
           [] ev.code = "Up"        -> Act("MoveUp", "")
           [] ev.code = "Down"      -> Act("MoveDown", "")
           [] ev.code = "Left"      -> Act("MoveLeft", "")
           [] ev.code = "Right"     -> Act("MoveRight", "")
           [] ev.code = "Enter"     -> Act("NewLine", "")
           [] ev.code \in KeyChars  -> Act("InsertChar", ev.code)
           [] ev.code = "PageDown"  -> Act("PageDown", "")
           [] ev.code = "PageUp"    -> Act("PageUp", "")
           [] ev.code = "End"       -> Act("EndOfLine", "")
           [] ev.code = "Home"      -> Act("StartOfLine", "")
           [] ev.code = "Backspace" -> Act("DelCharBefore", "")
           [] ev.code = "Delete"    -> Act("DelCharAtCursor", "")
           [] OTHER                 -> None

\* handle_normal_event without the match on KeyEventKind::Press: releases
\* and repeats of a key act as its press
handle_normal_event_AnyKind(ev) ==
    IF ev.type # "Key" THEN None
    ELSE CASE ev.code = "q"                   -> Act("Quit", "")
           [] ev.code \in {"Up", "k"}         -> Act("MoveUp", "")
           [] ev.code \in {"Down", "l"}       -> Act("MoveDown", "")
           [] ev.code \in {"Left", "j"}       -> Act("MoveLeft", "")
           [] ev.code \in {"Right", ";"}      -> Act("MoveRight", "")
           [] ev.code = "i"                   -> Act("EnterMode", "Insert")
           [] ev.code = "PageDown"            -> Act("PageDown", "")
           [] ev.code = "PageUp"              -> Act("PageUp", "")
           [] ev.code = "f" /\ ev.ctrl        -> Act("PageDown", "")
           [] ev.code = "b" /\ ev.ctrl        -> Act("PageUp", "")
           [] ev.code \in {"$", "End"}        -> Act("EndOfLine", "")
           [] ev.code \in {"0", "Home"}       -> Act("StartOfLine", "")
           [] ev.code = "x"                   -> Act("DelCharAtCursor", "")
           [] OTHER                           -> None

handle_normal_event(ev) ==
    IF ev.type # "Key" \/ ev.kind # "Press" THEN None
    ELSE CASE ev.code = "q"                   -> Act("Quit", "")
           [] ev.code \in {"Up", "k"}         -> Act("MoveUp", "")
           [] ev.code \in {"Down", "l"}       -> Act("MoveDown", "")
           [] ev.code \in {"Left", "j"}       -> Act("MoveLeft", "")
           [] ev.code \in {"Right", ";"}      -> Act("MoveRight", "")
           [] ev.code = "i"                   -> Act("EnterMode", "Insert")
           [] ev.code = "PageDown"            -> Act("PageDown", "")
           [] ev.code = "PageUp"              -> Act("PageUp", "")
           [] ev.code = "f" /\ ev.ctrl        -> Act("PageDown", "")
           [] ev.code = "b" /\ ev.ctrl        -> Act("PageUp", "")
           [] ev.code \in {"$", "End"}        -> Act("EndOfLine", "")
           [] ev.code \in {"0", "Home"}       -> Act("StartOfLine", "")
           [] ev.code = "x"                   -> Act("DelCharAtCursor", "")
           [] OTHER                           -> None

\* the mode switch of handle_event (the resize bookkeeping is in ResizeEvent)
handle_event(m, ev) ==
    IF m = "Normal" THEN handle_normal_event(ev) ELSE handle_insert_event(ev)

\* the resolver tabulated once over the modes and the events
Resolve == [m \in Modes |-> [ev \in Events |-> handle_event(m, ev)]]

\* the actions mode m can resolve to
Resolvable == [m \in Modes |-> {Resolve[m][ev] : ev \in Events}]

\* ------------------------------------------------------------------ state
VARIABLES
    text, dirty,                 \* Buffer: rope content and dirty flag
    size, vtop, vleft, cx, cy,   \* Editor fields
    mode,
    cx_history,                  \* the run loop's desired column
    raw_mode, alt_screen,        \* terminal state changed by new / drop
    pc,                          \* "main", "new", "pass", "read", "exited"
    exit,                        \* how the process ended ("none" while alive)
    wrapped,                     \* a u16 operation has wrapped (no overflow checks)
    edits,                       \* buffer mutations so far (bounded)
    pass_ovf,                    \* the last boundary pass wrapped a u16
    last,                        \* what this iteration handled, "" once drawn
    rt,                          \* MoveDown-then-MoveUp bookkeeping
    op                           \* the last operation applied to a bare Buffer

vars == <<text, dirty, size, vtop, vleft, cx, cy, mode, cx_history,
          raw_mode, alt_screen, pc, exit, wrapped, edits, pass_ovf, last, rt,
          op>>

Ed == [text |-> text, dirty |-> dirty, size |-> size, vtop |-> vtop,
       vleft |-> vleft, cx |-> cx, cy |-> cy, mode |-> mode, hist |-> cx_history]

Seqs(S, n) == UNION {[1..k -> S] : k \in 0..n}

\* the example document of the column-clamp scenario: lines "abc" and "de"
ScenarioTexts == { <<"a", "b", "c", NL, "d", "e">> }

\* file contents: every text of up to MaxInitLen characters
InitTexts == Seqs({"a", NL}, MaxInitLen)

\* terminal sizes terminal::size() reports: the narrowest and the widest
\* width, the shortest height with a viewport row and the tallest height
Sizes == {1, MaxWidth} \X {StatusRows + 1, MaxHeight}

\* the event kinds mode m resolves to no Action, resizes apart
EventKind(ev) == IF ev.type = "Key" THEN ev.kind ELSE ev.type

Unresolved ==
    [m \in Modes |-> {EventKind(ev) : ev \in {x \in Events : x.type # "Resize"
                                                          /\ Resolve[m][x] = None}}]

NoRT == [stage |-> 0, cx |-> 0]

NoOp == [name |-> "none", line |-> 0, col |-> 0, orig |-> <<>>]

Start(texts) ==
    /\ text \in texts
    /\ dirty = FALSE
    /\ size = <<0, 0>>
    /\ vtop = 0 /\ vleft = 0 /\ cx = 0 /\ cy = 0
    /\ mode = "Normal"
    /\ cx_history = 0
    /\ raw_mode = FALSE /\ alt_screen = FALSE
    /\ pc = "main"
    /\ exit = "none"
    /\ wrapped = FALSE
    /\ edits = 0
    /\ pass_ovf = FALSE
    /\ last = "Init"
    /\ rt = NoRT
    /\ op = NoOp

Init == Start(InitTexts)

\* the runs on the scenario documents
InitDoc == Start(ScenarioTexts)

EditorVars == <<text, dirty, size, vtop, vleft, cx, cy, mode, cx_history>>

Ghosts == <<pass_ovf, last, rt, op>>

\* impl Drop for Editor: leave the alternate screen, disable raw mode
Drop ==
    /\ alt_screen' = FALSE
    /\ raw_mode' = FALSE

\* the Editor and its Buffer are gone once main has dropped them
Dropped ==
    [text |-> <<>>, dirty |-> FALSE, size |-> <<0, 0>>, vtop |-> 0, vleft |-> 0,
     cx |-> 0, cy |-> 0, mode |-> "Normal", hist |-> 0]

Install(e) ==
    /\ text' = e.text /\ dirty' = e.dirty /\ size' = e.size
    /\ vtop' = e.vtop /\ vleft' = e.vleft /\ cx' = e.cx /\ cy' = e.cy
    /\ mode' = e.mode /\ cx_history' = e.hist

\* run returns (Ok or Err) or unwinds: main drops the editor and returns
ExitWith(how) ==
    /\ pc' = "exited"
    /\ exit' = how
    /\ Drop
    /\ Install(Dropped)
    /\ edits' = 0

\* main: Buffer::from_file(&filepath)?
FromFile ==
    /\ pc = "main"
    /\ \E ok \in BOOLEAN :
         IF ok
         THEN /\ pc' = "new"
              /\ UNCHANGED <<exit, EditorVars, edits>>
         ELSE /\ pc' = "exited"
              /\ exit' = "err"
              /\ Install(Dropped)
              /\ edits' = 0
    /\ UNCHANGED <<raw_mode, alt_screen, wrapped, Ghosts>>

NewOutcomes == {"raw_fails", "alt_fails", "clear_fails", "size_fails", "ok"}

\* the terminal state Editor::new leaves behind for each outcome; on an
\* error no Editor value exists yet, so nothing is dropped
new(outcome, sz) ==
    [raw  |-> outcome # "raw_fails",
     alt  |-> outcome \notin {"raw_fails", "alt_fails"},
     ok   |-> outcome = "ok",
     size |-> IF outcome = "ok" THEN sz ELSE <<0, 0>>]

\* main: Editor::new(buffer)?, then run's `let mut cx_history = self.cx`
EditorNew ==
    /\ pc = "new"
    /\ \E outcome \in NewOutcomes, sz \in Sizes :
         LET r == new(outcome, sz)
         IN  /\ raw_mode' = r.raw
             /\ alt_screen' = r.alt
             /\ pc' = IF r.ok THEN "pass" ELSE "exited"
             /\ exit' = IF r.ok THEN "none" ELSE "err"
             /\ Install(IF r.ok THEN [Ed EXCEPT !.size = r.size, !.hist = cx]
                        ELSE Dropped)
    /\ UNCHANGED <<wrapped, edits, Ghosts>>

\* how a step r can end: a rope fault panics; an overflow panics (overflow
\* checks on) or wraps (checks off); draw()? can fail after the boundary pass
PanicOutcomes(r) ==
    IF r.fault THEN {"panic_rope"}
    ELSE IF r.ovf /\ ~wrapped THEN {"panic_overflow", "wraps"}
    ELSE {"wraps"}

Outcomes(r) == PanicOutcomes(r) \cup {"err"}

\* head of the loop: assert_cursor_boundaries, then draw()?
BoundaryPass ==
    /\ pc = "pass"
    /\ LET r == assert_cursor_boundaries(Ed)
       IN  /\ pass_ovf' = r.ovf
           /\ \E outcome \in Outcomes(r) :
                IF outcome = "wraps"
                THEN /\ Install(r.e)
                     /\ pc' = "read"
                     /\ UNCHANGED <<exit, raw_mode, alt_screen, edits>>
                ELSE ExitWith(outcome)
           /\ wrapped' = (wrapped \/ r.ovf)
    /\ last' = ""
    /\ rt' = IF rt.stage = 1 /\ pc' = "read" THEN rt ELSE NoRT
    /\ UNCHANGED op

\* read()? fails
ReadErr ==
    /\ pc = "read"
    /\ ExitWith("err")
    /\ rt' = NoRT
    /\ UNCHANGED <<wrapped, pass_ovf, last, op>>

\* Event::Resize: handle_event records terminal::size()?, no Action follows
ResizeEvent ==
    /\ pc = "read"
    /\ \A ev \in Events : ev.type = "Resize" => Resolve[mode][ev] = None
    /\ \E ok \in BOOLEAN, sz \in Sizes :
         IF ok
         THEN /\ Install([Ed EXCEPT !.size = sz])
              /\ pc' = "pass"
              /\ last' = "Resize"
              /\ UNCHANGED <<exit, raw_mode, alt_screen, edits>>
         ELSE /\ ExitWith("err")
              /\ UNCHANGED last
    /\ rt' = NoRT
    /\ UNCHANGED <<wrapped, pass_ovf, op>>

\* an event other than a resize that resolves to no Action
NoAction ==
    /\ pc = "read"
    /\ Unresolved[mode] # {}
    /\ last' = "None"
    /\ pc' = "pass"
    /\ rt' = NoRT
    /\ UNCHANGED <<EditorVars, raw_mode, alt_screen, exit, wrapped, edits, pass_ovf, op>>

\* Action::Quit => break; run returns Ok(())
Quit ==
    /\ pc = "read"
    /\ Act("Quit", "") \in Resolvable[mode]
    /\ ExitWith("ok")
    /\ last' = "Quit"
    /\ rt' = NoRT
    /\ UNCHANGED <<wrapped, pass_ovf, op>>

\* the precondition of the column round trip, taken before a MoveDown: the
\* current line and the line below exist and are at least cx_history long
RoundTripPre(e) ==
    /\ buffer_line(e) + 1 < LenLines(e.text)
    /\ LineLenChars(e.text, buffer_line(e)) >= e.hist
    /\ LineLenChars(e.text, buffer_line(e) + 1) >= e.hist

\* stage 1: a MoveDown taken under RoundTripPre from column rt.cx was the
\* last Action; stage 2: a MoveUp followed it directly
NextRT(a) ==
    IF a.name = "MoveDown" /\ RoundTripPre(Ed) THEN [stage |-> 1, cx |-> cx]
    ELSE IF a.name = "MoveUp" /\ rt.stage = 1 THEN [rt EXCEPT !.stage = 2]
    ELSE NoRT

\* the arm of `match action` for Action a has produced step r
Dispatch(a, r) ==
    /\ pc = "read"
    /\ a \in Resolvable[mode]
    /\ r.e.text # text => edits < MaxEdits
    /\ \E outcome \in PanicOutcomes(r) :
         IF outcome = "wraps"
         THEN /\ Install(r.e)
              /\ pc' = "pass"
              /\ edits' = IF r.e.text # text THEN edits + 1 ELSE edits
              /\ rt' = NextRT(a)
              /\ UNCHANGED <<exit, raw_mode, alt_screen>>
         ELSE ExitWith(outcome) /\ rt' = NoRT
    /\ wrapped' = (wrapped \/ r.ovf)
    /\ last' = a.name
    /\ UNCHANGED <<pass_ovf, op>>

DoMoveUp == Dispatch(Act("MoveUp", ""), MoveUp(Ed))

DoMoveDown == Dispatch(Act("MoveDown", ""), MoveDown(Ed))

DoMoveLeft == Dispatch(Act("MoveLeft", ""), MoveLeft(Ed))

DoMoveRight ==
    /\ cx <= MaxWidth
    /\ Dispatch(Act("MoveRight", ""), MoveRight(Ed))

\* EnterMode also clears the screen: stdout.execute(Clear(Purge))? may fail
DoEnterMode ==
    /\ \E m \in Modes, clear_ok \in BOOLEAN :
         IF clear_ok
         THEN Dispatch(Act("EnterMode", m), EnterMode(Ed, m))
         ELSE /\ pc = "read"
              /\ Act("EnterMode", m) \in Resolvable[mode]
              /\ ExitWith("err")
              /\ last' = "EnterMode"
              /\ rt' = NoRT
              /\ UNCHANGED <<wrapped, pass_ovf, op>>

DoInsertChar == \E c \in TypedChars : Dispatch(Act("InsertChar", c), InsertChar(Ed, c))

DoDelCharBefore == Dispatch(Act("DelCharBefore", ""), DelCharBefore(Ed))

DoDelCharAtCursor ==
    Dispatch(Act("DelCharAtCursor", ""), DelCharAtCursor(Ed))

DoNewLine == Dispatch(Act("NewLine", ""), NewLine(Ed))

DoPageDown == Dispatch(Act("PageDown", ""), PageDown(Ed))

DoPageUp == Dispatch(Act("PageUp", ""), PageUp(Ed))

DoEndOfLine == Dispatch(Act("EndOfLine", ""), EndOfLine(Ed))

DoStartOfLine == Dispatch(Act("StartOfLine", ""), StartOfLine(Ed))

Next ==
    \/ FromFile
    \/ EditorNew
    \/ BoundaryPass
    \/ ReadErr
    \/ ResizeEvent
    \/ NoAction
    \/ Quit
    \/ DoMoveUp
    \/ DoMoveDown
    \/ DoMoveLeft
    \/ DoMoveRight
    \/ DoEnterMode
    \/ DoInsertChar
    \/ DoDelCharBefore
    \/ DoDelCharAtCursor
    \/ DoNewLine
    \/ DoPageDown
    \/ DoPageUp
    \/ DoEndOfLine
    \/ DoStartOfLine

Spec == Init /\ [][Next]_vars

SpecDoc == InitDoc /\ [][Next]_vars

\* ------------------------------------------------------- the Buffer alone
\* A Buffer as from_file returns it, with its three mutating operations
\* applied directly: any line and column, in range or not.
InitBuffer ==
    /\ text \in InitTexts
    /\ dirty = FALSE
    /\ size = <<0, 0>>
    /\ vtop = 0 /\ vleft = 0 /\ cx = 0 /\ cy = 0
    /\ mode = "Normal"
    /\ cx_history = 0
    /\ raw_mode = FALSE /\ alt_screen = FALSE
    /\ pc = "buffer"
    /\ exit = "none"
    /\ wrapped = FALSE
    /\ edits = 0
    /\ pass_ovf = FALSE
    /\ last = ""
    /\ rt = NoRT
    /\ op = NoOp

\* the lines and columns the operations are called with
BufferLines == 0 .. LenLines(text)

BufferCols == 0 .. (Len(text) + 1)

\* operation name on (line, col) returned buffer b
BufferStep(name, line, col, b) ==
    /\ pc = "buffer"
    /\ edits < MaxBufferOps
    /\ edits' = edits + 1
    /\ IF b.fault
       THEN /\ pc' = "exited"
            /\ exit' = "panic_rope"
            /\ op' = [name |-> name, line |-> line, col |-> col, orig |-> text]
            /\ UNCHANGED <<text, dirty>>
       ELSE /\ text' = b.text
            /\ dirty' = b.dirty
            /\ op' = IF name = "remove_char" /\ op.name = "insert_char"
                          /\ op.line = line /\ op.col = col
                     THEN [op EXCEPT !.name = "insert_char;remove_char"]
                     ELSE [name |-> name, line |-> line, col |-> col, orig |-> text]
            /\ UNCHANGED <<pc, exit>>
    /\ UNCHANGED <<size, vtop, vleft, cx, cy, mode, cx_history, raw_mode,
                   alt_screen, wrapped, pass_ovf, last, rt>>

BufInsertChar ==
    \E line \in BufferLines, col \in BufferCols, c \in TypedChars :
        BufferStep("insert_char", line, col, insert_char(Buf(Ed), line, col, c))

BufInsertText ==
    \E line \in BufferLines, col \in BufferCols :
        BufferStep("insert_text", line, col, insert_text(Buf(Ed), line, col, NL))

BufRemoveChar ==
    \E line \in BufferLines, col \in BufferCols :
        BufferStep("remove_char", line, col, remove_char(Buf(Ed), line, col))

NextBuffer ==
    \/ BufInsertChar
    \/ BufInsertText
    \/ BufRemoveChar

SpecBuffer == InitBuffer /\ [][NextBuffer]_vars

\* ------------------------------------------------------------- properties
Min(a, b) == IF a <= b THEN a ELSE b

\* the frame has been drawn: the boundary pass of this iteration has run
Drawn == pc = "read"

\* Every statement but C3's and C8's is taken over the runs in which no u16
\* operation has wrapped, so that what refutes one is a run of either build
\* and owes nothing to the overflow C3 is about.

\* C1 - Viewport bound: whenever a frame is drawn over a non-empty buffer,
\* the cursor row denotes an existing buffer line: vtop + cy < lineCount.
C1_ViewportBound ==
    Drawn /\ ~wrapped /\ LenLines(text) > 0 => vtop + cy < LenLines(text)

\* C2 - Column invariant: after every boundary pass cx <= viewportWidth
\* and, unless the current line is empty, cx <= lineLength(vtop + cy).
C2_ColumnInvariant ==
    Drawn /\ ~wrapped => /\ cx <= vwidth(Ed)
                         /\ line_length(Ed) # 0 => cx <= line_length(Ed)

\* C3 - The boundary pass is total: no run of assert_cursor_boundaries
\* overflows or underflows a u16 (it neither wraps nor panics).
C3_PassTotal == ~pass_ovf

\* C4 - The boundary pass is idempotent: the pass that follows an event that
\* resolved to no Action (so it runs on the result of the pass before it)
\* leaves vtop, cx, cy and the desired column as they are.
C4_PassIdempotent ==
    [][(pc = "pass" /\ last = "None" /\ pc' = "read" /\ ~wrapped')
          => <<vtop, cx, cy, cx_history>>' = <<vtop, cx, cy, cx_history>>]_vars

\* C5 - No bottom overscroll: whenever lineCount >= height, after every
\* boundary pass vtop + height <= lineCount.
C5_NoBottomOverscroll ==
    Drawn /\ ~wrapped /\ LenLines(text) >= vheight(Ed)
        => vtop + vheight(Ed) <= LenLines(text)

\* the arguments of the rope call an Action would make in this state
InsertInRange(line, col) ==
    line < LenLines(text) /\ col <= LineLenChars(text, line)

RemoveInRange(line, col) ==
    line < LenLines(text) /\ col < LineLenChars(text, line)

Offered(name) == \E a \in Resolvable[mode] : a.name = name

\* C6 - The dispatcher never calls a buffer mutation out of range: whenever
\* the loop waits for an event, the call InsertChar, NewLine,
\* DeleteCharBefore or DeleteCharAtCursor would make targets a line
\* < lineCount, inserts at a column <= the line's length and removes at a
\* column < the line's length, so that no call faults in the rope.
C6_MutationsInRange ==
    /\ ~wrapped => exit # "panic_rope"
    /\ Drawn /\ ~wrapped =>
      /\ Offered("InsertChar") => InsertInRange(buffer_line(Ed), cx)
      /\ Offered("NewLine") => InsertInRange(buffer_line(Ed), cx)
      /\ Offered("DelCharBefore") /\ cx > vleft
            => RemoveInRange(buffer_line(Ed), cx - 1)
      /\ Offered("DelCharAtCursor") /\ cx < line_length(Ed) /\ line_length(Ed) > 0
            => RemoveInRange(buffer_line(Ed), cx)

\* C7 - Dirty flag: once the buffer has been mutated (insertChar, insertText
\* or removeChar has changed the text), dirty is true.
C7_DirtyAfterMutation == edits > 0 /\ ~wrapped => dirty

\* C8 - Terminal restoration: whenever the process has returned, raw mode
\* is disabled and the alternate screen has been left.
C8_TerminalRestored == pc = "exited" => ~raw_mode /\ ~alt_screen

\* C9 - Column clamp: a vertical move sets cx to min(desiredColumn,
\* lineLength(newLine)), newLine being the line of the row the cursor is
\* moved to (of length 0 when that row holds no line); the desired column
\* is kept, and MoveDown moves the cursor one row down.
C9_ColumnClamp ==
    [][(pc = "read" /\ pc' = "pass" /\ last' \in {"MoveUp", "MoveDown"})
          => /\ cx' = Min(cx_history, line_length(Ed)')
             /\ cx_history' = cx_history
             /\ last' = "MoveDown" => cy' = cy + 1 /\ vtop' = vtop]_vars

\* C9 witness: on the lines "abc" and "de", a MoveDown from line 0 with the
\* desired column 3 has just landed on line 1 and cx is clamped to 2, the
\* length of that line.
C9_Witness ==
    /\ pc = "pass" /\ last = "MoveDown"
    /\ text = <<"a", "b", "c", NL, "d", "e">>
    /\ buffer_line(Ed) = 1 /\ cy = 1
    /\ cx_history = 3 /\ cx_history > line_length(Ed)
    /\ cx = 2 /\ cx = line_length(Ed)

\* C10 - Column round-trip: when the current line and the line below both
\* have length >= desiredColumn, MoveDown followed by MoveUp restores cx to
\* its value before the two moves (here: in the frame drawn after them).
C10_ColumnRoundTrip ==
    [][(pc = "pass" /\ rt.stage = 2 /\ pc' = "read" /\ ~wrapped')
          => cx' = rt.cx]_vars

\* line i of text t, its trailing break included
Line(t, i) == SubSeq(t, LineToChar(t, i) + 1, LineToChar(t, i) + LineLenChars(t, i))

\* C11 - Insert/remove round-trip: insertChar(L, C, ch) on a line
\* L < lineCount at a column C <= lineLength(L), immediately followed by
\* removeChar(L, C), restores line L and the whole content, and the dirty
\* flag is set afterwards.
C11_InsertRemoveRoundTrip ==
    /\ op.name = "insert_char;remove_char"
    /\ op.line < LenLines(op.orig)
    /\ op.col <= LineLenChars(op.orig, op.line)
    => /\ pc = "buffer"
       /\ Line(text, op.line) = Line(op.orig, op.line)
       /\ text = op.orig
       /\ dirty

\* text t2 is text t with line L split at column C: one line more, lines L
\* and L + 1 of t2 are line L of t with a break put in at column C, and
\* every other line is as it was
SplitAt(t, t2, L, C) ==
    /\ L < LenLines(t)
    /\ LenLines(t2) = LenLines(t) + 1
    /\ LET two == Line(t2, L) \o Line(t2, L + 1)
       IN  /\ C < Len(two)
           /\ two[C + 1] = NL
           /\ RopeRemove(two, C) = Line(t, L)
    /\ \A i \in 0 .. (LenLines(t) - 1) :
         /\ i < L => Line(t2, i) = Line(t, i)
         /\ i > L => Line(t2, i + 1) = Line(t, i)

\* C12 - Line split law: the NewLine action, insertText(L, C, "\n") at
\* L = vtop + cy and C = cx, raises lineCount by exactly one, replaces line
\* L by two lines that joined without the inserted break are the original
\* line L, leaves every other line unchanged, sets cx = 0 and increases cy
\* by 1.
C12_LineSplit ==
    [][(pc = "read" /\ last' = "NewLine" /\ ~wrapped'
            /\ exit' # "panic_overflow")
          => /\ pc' = "pass"
             /\ SplitAt(text, text', vtop + cy, cx)
             /\ cx' = 0
             /\ cy' = cy + 1]_vars

\* C13 - MoveUp moves the cursor up exactly one buffer line: from cy > 0,
\* cy decreases by 1 and vtop is unchanged; from cy = 0 with vtop > 0, vtop
\* decreases by 1 and cy stays 0; from cy = 0 and vtop = 0 neither changes;
\* so the absolute line vtop + cy decreases by exactly 1 whenever it is > 0.
C13_MoveUpOneLine ==
    [][(pc = "read" /\ last' = "MoveUp" /\ pc' = "pass" /\ ~wrapped')
          => /\ cy > 0 => cy' = cy - 1 /\ vtop' = vtop
             /\ cy = 0 /\ vtop > 0 => vtop' = vtop - 1 /\ cy' = 0
             /\ cy = 0 /\ vtop = 0 => vtop' = 0 /\ cy' = 0
             /\ vtop + cy > 0 => vtop' + cy' = vtop + cy - 1]_vars

\* a MoveLeft step of the run loop
MoveLeftStep == pc = "read" /\ last' = "MoveLeft" /\ pc' = "pass"

\* the cursor has gone to the previous buffer line: by scrolling when on
\* the top row, by moving up a row otherwise
ToPreviousLine ==
    /\ vtop' + cy' = vtop + cy - 1
    /\ cy = 0 => vtop' = vtop - 1 /\ cy' = 0
    /\ cy > 0 => cy' = cy - 1 /\ vtop' = vtop

\* C14 - MoveLeft: with cx at the left edge and a previous buffer line, the
\* cursor goes to the previous line and cx becomes that line's length; with
\* cx right of the left edge, cx decreases by 1 and the line is unchanged;
\* in all cases desiredColumn = cx afterwards.
C14_MoveLeft ==
    [][MoveLeftStep /\ ~wrapped'
          => /\ cx = vleft /\ vtop + cy > 0
                  => ToPreviousLine /\ cx' = line_length(Ed)'
             /\ cx > vleft => cx' = cx - 1 /\ vtop' = vtop /\ cy' = cy
             /\ cx_history' = cx']_vars

\* C14 as amended: after the wrap cx is one less than the previous line's
\* length (the column of its last character, 0 on an empty line); the rest
\* is as claimed.
C14_MoveLeftAmended ==
    [][MoveLeftStep
          => /\ cx = vleft /\ vtop + cy > 0
                  => ToPreviousLine /\ cx' = SatSub(line_length(Ed)', 1)
             /\ cx > vleft => cx' = cx - 1 /\ vtop' = vtop /\ cy' = cy
             /\ cx_history' = cx']_vars

\* C14 witness: a MoveLeft has just wrapped onto a line that is not the
\* last one (only a wrap can put cx on the final column of such a line)
C14_Witness ==
    /\ pc = "pass" /\ last = "MoveLeft" /\ ~wrapped
    /\ buffer_line(Ed) + 1 < LenLines(text)
    /\ cx >= 1 /\ cx = line_length(Ed) - 1
    /\ cx_history = cx

\* what the two key tables resolve: Quit only from a press of q in Normal
\* mode; in Insert mode every character key, q included, to InsertChar of
\* that character, and EnterMode(Normal) from a press of Escape and from
\* nothing else
QuitBindings ==
    \A m \in Modes, ev \in Events :
        /\ Resolve[m][ev] = Act("Quit", "")
              => m = "Normal" /\ ev.type = "Key" /\ ev.kind = "Press" /\ ev.code = "q"
        /\ m = "Insert" /\ ev.type = "Key" /\ ev.kind = "Press" /\ ev.code \in KeyChars
              => Resolve[m][ev] = Act("InsertChar", ev.code)
        /\ m = "Insert"
              => (Resolve[m][ev] = Act("EnterMode", "Normal")
                    <=> ev.type = "Key" /\ ev.kind = "Press" /\ ev.code = "Esc")

\* C15 - Termination only via Quit from Normal mode: the loop ends normally
\* only by a Quit, Quit is resolved only in Normal mode, and from Insert
\* mode the loop cannot end normally; the mode gets back to Normal only by
\* the EnterMode that Escape resolves to.
C15_QuitOnlyFromNormal ==
    [][/\ QuitBindings
       /\ exit' = "ok" /\ exit # "ok"
            => pc = "read" /\ mode = "Normal" /\ last' = "Quit"
       /\ pc = "read" /\ mode = "Insert"
            => /\ exit' # "ok"
               /\ mode' = "Normal" /\ pc' # "exited" => last' = "EnterMode"]_vars

\* C15 witness: q has been typed in Insert mode; it is in the text and
\* the loop goes on in Insert mode
C15_Witness ==
    /\ pc = "pass" /\ mode = "Insert" /\ last = "InsertChar"
    /\ \E k \in 1 .. Len(text) : text[k] = "q"

\* in either mode an event that is not a key press resolves to no Action
NonPressUnresolved ==
    \A m \in Modes, ev \in Events :
        ev.type # "Key" \/ ev.kind # "Press" => Resolve[m][ev] = None

\* C16 - Only key-press events are actionable: a key release or repeat, a
\* resize or any non-key event resolves to no Action in either mode, so
\* the iteration that handles it changes none of buffer content, mode,
\* vtop, cx, cy and desiredColumn; a resize changes the recorded size and
\* nothing else, any other such event not even that.
C16_OnlyPressesAct ==
    [][/\ NonPressUnresolved
       /\ pc = "read" /\ pc' = "pass" /\ last' \in {"None", "Resize"}
            => /\ UNCHANGED <<text, dirty, mode, vtop, vleft, cx, cy, cx_history>>
               /\ last' = "None" => size' = size]_vars

\* C16 witness: a resize has just been handled in Insert mode with the
\* cursor away from the origin
C16_Witness ==
    /\ pc = "pass" /\ last = "Resize" /\ mode = "Insert"
    /\ cx > 0 /\ Len(text) > 0

\* C17 - InsertChar(c) inserts c at line vtop + cy, column cx, growing
\* that line by exactly one character, and leaves cx, cy, vtop, vleft, mode
\* and desiredColumn unchanged.
C17_InsertCharInPlace ==
    [][(pc = "read" /\ last' = "InsertChar" /\ ~wrapped'
            /\ exit' # "panic_overflow")
          => /\ pc' = "pass"
             /\ vtop + cy < LenLines(text)
             /\ cx <= LineLenChars(text, vtop + cy)
             /\ Len(Line(text', vtop + cy)) = Len(Line(text, vtop + cy)) + 1
             /\ Line(text', vtop + cy)[cx + 1] \in TypedChars
             /\ RopeRemove(Line(text', vtop + cy), cx) = Line(text, vtop + cy)
             /\ LenLines(text') = LenLines(text)
             /\ \A i \in 0 .. (LenLines(text) - 1) :
                    i # vtop + cy => Line(text', i) = Line(text, i)
             /\ UNCHANGED <<cx, cy, vtop, vleft, mode, cx_history>>]_vars

\* text t2 is text t without the character at column col of line L
RemovedAt(t, t2, L, col) ==
    /\ L < LenLines(t)
    /\ col < LineLenChars(t, L)
    /\ t2 = RopeRemove(t, LineToChar(t, L) + col)

\* a delete step of the run loop, the builds' overflow panic apart
DeleteStep(name) ==
    pc = "read" /\ last' = name /\ ~wrapped' /\ exit' # "panic_overflow"

\* C18 - Delete guards: DeleteCharBefore removes exactly the character at
\* column cx - 1 of the current line, decrements cx and sets the desired
\* column to cx when cx is right of the left margin, and changes nothing
\* otherwise; DeleteCharAtCursor removes exactly the character at column cx
\* of the current line when cx < lineLength and the line is non-empty, and
\* leaves the content unchanged otherwise; either shrinks the buffer by one
\* character or by none.
C18_DeleteGuards ==
    [][/\ DeleteStep("DelCharBefore")
            => /\ pc' = "pass"
               /\ cx > vleft
                    => /\ RemovedAt(text, text', vtop + cy, cx - 1)
                       /\ cx' = cx - 1
                       /\ cx_history' = cx'
               /\ cx <= vleft
                    => UNCHANGED <<text, cx, cy, vtop, vleft, mode, cx_history>>
       /\ DeleteStep("DelCharAtCursor")
            => /\ pc' = "pass"
               /\ cx < line_length(Ed) /\ line_length(Ed) > 0
                    => RemovedAt(text, text', vtop + cy, cx)
               /\ ~(cx < line_length(Ed) /\ line_length(Ed) > 0)
                    => text' = text
       /\ DeleteStep("DelCharBefore") \/ DeleteStep("DelCharAtCursor")
            => Len(text') \in {Len(text), Len(text) - 1}]_vars

\* C19 - MoveDown followed by the boundary pass advances the absolute
\* cursor line vtop + cy by exactly one when the cursor was not on the last
\* buffer line, the pass raising vtop by at most one, and leaves the
\* absolute line unchanged when it was on the last line.  (In the state the
\* pass starts from MoveDown has added one to cy, so the move started on
\* line vtop + cy - 1.)
C19_MoveDownOneLine ==
    [][(pc = "pass" /\ last = "MoveDown" /\ pc' = "read" /\ ~wrapped')
          => LET from == vtop + cy - 1
             IN  /\ from + 1 < LenLines(text)
                      => vtop' + cy' = from + 1 /\ vtop' <= vtop + 1
                 /\ from + 1 = LenLines(text)
                      => vtop' + cy' = from]_vars

\* what each mode can resolve that bears on editing and on the mode
EditBindings ==
    \A ev \in Events :
        /\ Resolve["Normal"][ev].name \notin {"InsertChar", "NewLine", "DelCharBefore"}
        /\ Resolve["Normal"][ev].name = "EnterMode"
              => /\ Resolve["Normal"][ev].arg = "Insert"
                 /\ ev.type = "Key" /\ ev.kind = "Press" /\ ev.code = "i"
        /\ Resolve["Insert"][ev].name = "EnterMode"
              => /\ Resolve["Insert"][ev].arg = "Normal"
                 /\ ev.type = "Key" /\ ev.kind = "Press" /\ ev.code = "Esc"

\* C20 - Mode gates editing: the mode is Normal until the loop first reads
\* an event; while the loop runs the mode changes only by an EnterMode,
\* which takes Normal to Insert and Insert to Normal; in Normal mode
\* InsertChar, NewLine and DelCharBefore are never resolved and the text
\* of a running editor changes only by DelCharAtCursor.
C20_ModeGatesEditing ==
    [][/\ EditBindings
       /\ pc \in {"main", "new"} => mode = "Normal"
       /\ pc' # "exited" /\ mode' # mode
            => pc = "read" /\ last' = "EnterMode"
       /\ pc = "read" /\ last' = "EnterMode" /\ pc' = "pass"
            => mode' # mode
       /\ pc' # "exited" /\ mode = "Normal" /\ text' # text
            => pc = "read" /\ last' = "DelCharAtCursor"
       /\ pc = "read" /\ mode = "Normal"
            => last' \notin {"InsertChar", "NewLine", "DelCharBefore"}]_vars

\* C20 witness: x has removed a character in Normal mode
C20_Witness ==
    /\ pc = "pass" /\ mode = "Normal" /\ last = "DelCharAtCursor"
    /\ edits = 1 /\ Len(text) = 1

\* C20 witness of the mode change: the loop is in Insert mode after i
C20_InsertEntered ==
    pc = "pass" /\ mode = "Insert" /\ last = "EnterMode"

====
